---- MODULE Spec2Model ----
(***************************************************************************)
(* Model of server/tools_networks.py: the network tool registry of the     *)
(* Cisco Meraki MCP server.                                                *)
(*                                                                         *)
(* The module-level globals app and meraki_client, the registration entry  *)
(* point, and the six tool handlers are modelled.  The host (app.tool) and *)
(* the Meraki client are external: the host is modelled by the log of the  *)
(* records handed to app.tool, the client by the response (a value or a    *)
(* raised exception) it gives to each call.                                *)
(*                                                                         *)
(* Python values are records [t, text, ...]: t is the Python type, text    *)
(* the str() rendering used by f-strings.  A Python string built by        *)
(* f-strings is kept as the sequence of its chunks, one chunk per f-string *)
(* of the source, each chunk the sequence of its literal and interpolated  *)
(* pieces.                                                                 *)
(***************************************************************************)
EXTENDS Naturals, Sequences, FiniteSets

VARIABLES
    app,            \* global app            (tools_networks.py:6)
    meraki_client,  \* global meraki_client  (tools_networks.py:7)
    submitted,      \* records handed to app.tool, in order, never touched by this module
    regs,           \* history: the arguments of every register_network_tools call so far
    last            \* observation: the request the host is serving (NoCall while it is idle)

vars == <<app, meraki_client, submitted, regs, last>>

----------------------------------------------------------------------------
(* Bounds of the model *)

MaxRegs == 2        \* calls of register_network_tools explored
MaxRecs == 2        \* length of the lists the client returns

Hosts == {"host1", "host2"}
Clients == {"client1", "client2"}
NetworkIds == {"N_1", "L_2"}
OrgIds == {"org_9"}
NetNames == {"Branch"}
TagVals == {"['lab']"}
NetTypes == {"appliance"}

----------------------------------------------------------------------------
(* Python values *)

None == "None"                  \* the None of the two globals and of call arguments
NotGiven == "<not given>"       \* an optional argument the caller left out

PyNone == [t |-> "None", text |-> "None"]
PyStr(s) == [t |-> "str", text |-> s]
PyNum(s) == [t |-> "num", text |-> s]
Missing == [t |-> "missing", text |-> ""]       \* the key is not in the dict

\* bool(v) of Python
Truthy(v) ==
    CASE v.t = "None" -> FALSE
      [] v.t = "str"  -> v.text # ""
      [] v.t = "num"  -> v.text \notin {"0", "0.0"}
      [] v.t = "dict" -> \E k \in (DOMAIN v) \ {"t", "text"} : v[k].t # "missing"
      [] v.t = "list" -> v.items # <<>>
      [] OTHER        -> FALSE

\* d.get(k, default) and d.get(k) on a dict d
Get(d, k, default) == IF d[k].t = "missing" THEN default ELSE d[k]
GetOrNone(d, k) == Get(d, k, PyNone)

\* Exceptions: cls is the nearest of BaseException / Exception the type derives from
Exc(cls, typ, msg) == [cls |-> cls, typ |-> typ, msg |-> msg]
NoExc == Exc("", "", "")
AttributeError(v) ==
    Exc("Exception", "AttributeError",
        IF v.t = "None" THEN "'NoneType' object has no attribute 'get'"
        ELSE IF v.t = "num" THEN "'int' object has no attribute 'get'"
        ELSE "'str' object has no attribute 'get'")

\* What a call or a block of code ends in: a value returned or an exception raised
Returned(v) == [kind |-> "return", value |-> v, exc |-> NoExc]
Raised(e) == [kind |-> "raise", value |-> PyNone, exc |-> e]

\* The grave accent U+0060 that opens and closes a Markdown code span (the
\* character itself cannot be written inside a TLA+ string)
BT == "<U+0060>"

\* The Python string made of the given f-string chunks
Str(chunks) == [t |-> "str", text |-> "", items |-> chunks]

----------------------------------------------------------------------------
(* Registration *)

\* Variant: the last decorator was copied from the one above it, name included
ToolTableCopied == <<
    [name |-> "get_network", handler |-> "get_network",
     description |-> "Get details about a specific Meraki network"],
    [name |-> "update_network", handler |-> "update_network",
     description |-> "Update a Meraki network"],
    [name |-> "get_network_devices", handler |-> "get_network_devices",
     description |-> "List devices in a Meraki network"],
    [name |-> "get_network_clients", handler |-> "get_network_clients",
     description |-> "List clients in a Meraki network"],
    [name |-> "create_network", handler |-> "create_network",
     description |-> "Create a new Meraki network in an organization"],
    [name |-> "create_network", handler |-> "delete_network",
     description |-> "Delete a Meraki network"] >>

\* The @app.tool(name=..., description=...) decorators, in source order, each
\* with the function it decorates
ToolTable == <<
    [name |-> "get_network", handler |-> "get_network",
     description |-> "Get details about a specific Meraki network"],
    [name |-> "update_network", handler |-> "update_network",
     description |-> "Update a Meraki network"],
    [name |-> "get_network_devices", handler |-> "get_network_devices",
     description |-> "List devices in a Meraki network"],
    [name |-> "get_network_clients", handler |-> "get_network_clients",
     description |-> "List clients in a Meraki network"],
    [name |-> "create_network", handler |-> "create_network",
     description |-> "Create a new Meraki network in an organization"],
    [name |-> "delete_network", handler |-> "delete_network",
     description |-> "Delete a Meraki network"] >>

ToolNames == {"get_network", "update_network", "get_network_devices",
              "get_network_clients", "create_network", "delete_network"}
RawTools == {"get_network", "update_network", "create_network", "delete_network"}
ListTools == {"get_network_devices", "get_network_clients"}

NoCall == [idx |-> 0, tool |-> "none", given |-> [network_id |-> ""],
           resp |-> Returned(PyNone), calls |-> <<>>, outcome |-> Returned(PyNone)]

\* register_network_tool_handlers(): every decorator hands one record to the
\* tool registration of the host the global app names at that moment.  reg is
\* the registration call that created the function object.
register_network_tool_handlers(host, reg) ==
    [i \in 1..Len(ToolTable) |->
        [host |-> host, name |-> ToolTable[i].name,
         description |-> ToolTable[i].description,
         handler |-> ToolTable[i].handler, reg |-> reg]]

Init ==
    /\ app = None
    /\ meraki_client = None
    /\ submitted = <<>>
    /\ regs = <<>>
    /\ last = NoCall

\* Variant: the globals are only set while they are still None
register_network_tools_once(mcp_app, meraki) ==
    /\ Len(regs) < MaxRegs
    /\ app' = (IF app = None THEN mcp_app ELSE app)
    /\ meraki_client' = (IF meraki_client = None THEN meraki ELSE meraki_client)
    /\ regs' = Append(regs, [host |-> mcp_app, client |-> meraki])
    /\ submitted' = submitted \o register_network_tool_handlers(mcp_app, Len(regs) + 1)
    /\ last' = NoCall

register_network_tools(mcp_app, meraki) ==
    /\ Len(regs) < MaxRegs
    /\ app' = mcp_app
    /\ meraki_client' = meraki
    /\ regs' = Append(regs, [host |-> mcp_app, client |-> meraki])
    /\ submitted' = submitted \o register_network_tool_handlers(mcp_app, Len(regs) + 1)
    /\ last' = NoCall

----------------------------------------------------------------------------
(* The client, as seen from the handlers *)

\* Variant: the handler uses the client that was current when it was defined
ClientRefCaptured(reg) == regs[reg].client

\* The object the name meraki_client denotes inside a handler whose function
\* object was created by registration reg: the name is a module global, looked
\* up when the handler runs, not when it was defined.
ClientRef(reg) == meraki_client

\* One call made on a client object
Call(cl, method, args) == [client |-> cl, method |-> method, args |-> args]

\* What a handler run amounts to: the client calls it made, and how it ended
Ran(calls, outcome) == [calls |-> calls, outcome |-> outcome]

\* A parameter with a default value in the def line
Default(arg, dflt) == IF arg = NotGiven THEN dflt ELSE arg

\* isinstance(e, Exception): what "except Exception" catches
IsException(e) == e.cls = "Exception"

\* Variant: except APIError, the error type of the client, instead of Exception
TryExceptAPIError(body, prefix) ==
    IF body.kind = "raise" /\ body.exc.typ = "APIError"
    THEN Returned(Str(<<prefix \o <<body.exc.msg>> >>))
    ELSE body

\* try: <body> except Exception as e: return f"<prefix>{str(e)}"
TryExceptException(body, prefix) ==
    IF body.kind = "raise" /\ IsException(body.exc)
    THEN Returned(Str(<<prefix \o <<body.exc.msg>> >>))
    ELSE body

----------------------------------------------------------------------------
(* The four forwarding handlers: return meraki_client.<method>(...) *)

get_network(cl, network_id, resp) ==
    Ran(<<Call(cl, "get_network", <<network_id>>)>>, resp)

\* Variant: tags and name are passed in the wrong order
update_network_swapped(cl, network_id, name_arg, tags_arg, resp) ==
    LET name == Default(name_arg, None)
        tags == Default(tags_arg, None)
    IN  Ran(<<Call(cl, "update_network", <<network_id, tags, name>>)>>, resp)

update_network(cl, network_id, name_arg, tags_arg, resp) ==
    LET name == Default(name_arg, None)
        tags == Default(tags_arg, None)
    IN  Ran(<<Call(cl, "update_network", <<network_id, name, tags>>)>>, resp)

create_network(cl, organization_id, name, type_arg, resp) ==
    LET type == Default(type_arg, "wireless")
    IN  Ran(<<Call(cl, "create_network", <<organization_id, name, type>>)>>, resp)

\* Variant: a failure is reported as text, the way the listing handlers do
delete_network_reporting(cl, network_id, resp) ==
    Ran(<<Call(cl, "delete_network", <<network_id>>)>>,
        TryExceptException(resp, <<"Failed to delete network ", network_id, ": ">>))

delete_network(cl, network_id, resp) ==
    Ran(<<Call(cl, "delete_network", <<network_id>>)>>, resp)

----------------------------------------------------------------------------
(* The two listing handlers *)

\* How a stretch of formatting code ends: the chunks appended, or an exception
Chunks(cs) == [ok |-> TRUE, chunks |-> cs, exc |-> NoExc]
Fails(e) == [ok |-> FALSE, chunks |-> <<>>, exc |-> e]

\* v.get(k, default) on a value the client returned: only a dict has .get
HasGet(v) == v.t = "dict"

\* Variant: the location is shown when lat or lng is truthy
DeviceBlockEither(device) ==
    IF ~HasGet(device) THEN Fails(AttributeError(device))
    ELSE
    LET lat == GetOrNone(device, "lat")
        lng == GetOrNone(device, "lng")
        address == GetOrNone(device, "address")
    IN  Chunks(
          << <<"- **", Get(device, "name", PyStr("Unnamed")).text, "** (Model: ",
               Get(device, "model", PyStr("Unknown")).text, ")\n">>,
             <<"  - Serial: ", BT, Get(device, "serial", PyStr("Unknown")).text, BT, "\n">>,
             <<"  - MAC: ", BT, Get(device, "mac", PyStr("Unknown")).text, BT, "\n">>,
             <<"  - Status: ", Get(device, "status", PyStr("Unknown")).text, "\n">> >>
          \o (IF Truthy(lat) \/ Truthy(lng)
              THEN << <<"  - Location: (", lat.text, ", ", lng.text, ")\n">> >>
              ELSE <<>>)
          \o (IF Truthy(address)
              THEN << <<"  - Address: ", address.text, "\n">> >>
              ELSE <<>>)
          \o << <<"\n">> >>)

\* The body of "for device in devices": the chunks one device adds to result
DeviceBlock(device) ==
    IF ~HasGet(device) THEN Fails(AttributeError(device))
    ELSE
    LET lat == GetOrNone(device, "lat")
        lng == GetOrNone(device, "lng")
        address == GetOrNone(device, "address")
    IN  Chunks(
          << <<"- **", Get(device, "name", PyStr("Unnamed")).text, "** (Model: ",
               Get(device, "model", PyStr("Unknown")).text, ")\n">>,
             <<"  - Serial: ", BT, Get(device, "serial", PyStr("Unknown")).text, BT, "\n">>,
             <<"  - MAC: ", BT, Get(device, "mac", PyStr("Unknown")).text, BT, "\n">>,
             <<"  - Status: ", Get(device, "status", PyStr("Unknown")).text, "\n">> >>
          \o (IF Truthy(lat) /\ Truthy(lng)
              THEN << <<"  - Location: (", lat.text, ", ", lng.text, ")\n">> >>
              ELSE <<>>)
          \o (IF Truthy(address)
              THEN << <<"  - Address: ", address.text, "\n">> >>
              ELSE <<>>)
          \o << <<"\n">> >>)

\* The body of "for client in clients": the chunks one client adds to result
ClientBlock(client) ==
    IF ~HasGet(client) THEN Fails(AttributeError(client))
    ELSE
    LET usage == GetOrNone(client, "usage")
        head == << <<"- **", Get(client, "description", PyStr("Unknown Device")).text, "**\n">>,
                   <<"  - MAC: ", BT, Get(client, "mac", PyStr("Unknown")).text, BT, "\n">>,
                   <<"  - IP: ", BT, Get(client, "ip", PyStr("Unknown")).text, BT, "\n">>,
                   <<"  - VLAN: ", Get(client, "vlan", PyStr("Unknown")).text, "\n">>,
                   <<"  - Connection: ", Get(client, "status", PyStr("Unknown")).text, "\n">> >>
    IN  IF ~Truthy(usage) THEN Chunks(head \o << <<"\n">> >>)
        ELSE IF ~HasGet(usage) THEN Fails(AttributeError(usage))
        ELSE Chunks(head
                    \o << <<"  - Usage: ", Get(usage, "sent", PyNum("0")).text, " sent, ",
                            Get(usage, "recv", PyNum("0")).text, " received\n">> >>
                    \o << <<"\n">> >>)

\* result += <the chunks of each block in turn>, up to the first exception
RECURSIVE Accumulate(_, _)
Accumulate(blocks, result) ==
    IF blocks = <<>> THEN Chunks(result)
    ELSE LET b == Head(blocks)
         IN  IF ~b.ok THEN b
             ELSE Accumulate(Tail(blocks), result \o b.chunks)

\* return result, unless the loop ended in an exception
Finish(r) == IF r.ok THEN Returned(Str(r.chunks)) ELSE Raised(r.exc)

\* Variant: "if devices is None" instead of "if not devices"
get_network_devices_none_check(cl, network_id, resp) ==
    LET devices == resp.value
        body ==
            IF resp.kind = "raise" THEN resp
            ELSE IF devices.t = "None"
            THEN Returned(Str(<< <<"No devices found for network ", network_id, ".">> >>))
            ELSE Finish(Accumulate(
                    [i \in 1..Len(devices.items) |-> DeviceBlock(devices.items[i])],
                    << <<"# Devices in Network (", network_id, ")\n\n">> >>))
    IN  Ran(<<Call(cl, "get_network_devices", <<network_id>>)>>,
            TryExceptException(body, <<"Failed to list devices for network ", network_id, ": ">>))

get_network_devices(cl, network_id, resp) ==
    LET devices == resp.value
        body ==
            IF resp.kind = "raise" THEN resp
            ELSE IF ~Truthy(devices)
            THEN Returned(Str(<< <<"No devices found for network ", network_id, ".">> >>))
            ELSE Finish(Accumulate(
                    [i \in 1..Len(devices.items) |-> DeviceBlock(devices.items[i])],
                    << <<"# Devices in Network (", network_id, ")\n\n">> >>))
    IN  Ran(<<Call(cl, "get_network_devices", <<network_id>>)>>,
            TryExceptException(body, <<"Failed to list devices for network ", network_id, ": ">>))

\* Variant: a failed client call is tried once more before giving up
get_network_clients_retry(cl, network_id, resp) ==
    LET clients == resp.value
        body ==
            IF resp.kind = "raise" THEN resp
            ELSE IF ~Truthy(clients)
            THEN Returned(Str(<< <<"No clients found for network ", network_id, ".">> >>))
            ELSE Finish(Accumulate(
                    [i \in 1..Len(clients.items) |-> ClientBlock(clients.items[i])],
                    << <<"# Clients in Network (", network_id, ")\n\n">> >>))
        call == Call(cl, "get_network_clients", <<network_id>>)
    IN  Ran(IF resp.kind = "raise" THEN <<call, call>> ELSE <<call>>,
            TryExceptException(body, <<"Failed to list clients for network ", network_id, ": ">>))

get_network_clients(cl, network_id, resp) ==
    LET clients == resp.value
        body ==
            IF resp.kind = "raise" THEN resp
            ELSE IF ~Truthy(clients)
            THEN Returned(Str(<< <<"No clients found for network ", network_id, ".">> >>))
            ELSE Finish(Accumulate(
                    [i \in 1..Len(clients.items) |-> ClientBlock(clients.items[i])],
                    << <<"# Clients in Network (", network_id, ")\n\n">> >>))
    IN  Ran(<<Call(cl, "get_network_clients", <<network_id>>)>>,
            TryExceptException(body, <<"Failed to list clients for network ", network_id, ": ">>))

----------------
(* What the host passes in and what the client answers *)

ClientErrors == {Exc("Exception", "APIError", "404 Not Found"),
                 Exc("BaseException", "KeyboardInterrupt", "")}

Responses(values) == {Returned(v) : v \in values} \cup {Raised(e) : e \in ClientErrors}

\* Raw results: a network record, or None (the answer to a delete)
RawValues == {PyNone, [t |-> "dict", text |-> "{'id': 'N_1', 'name': 'Branch'}"]}

List(items) == [t |-> "list", text |-> "", items |-> items]
SeqsUpTo(S, n) == UNION {[1..k -> S] : k \in 0..n}
ListValues(records, n) == {PyNone} \cup {List(s) : s \in SeqsUpTo(records, n)}

Device(name, lat, lng, address) ==
    [t |-> "dict", text |-> "", name |-> name, model |-> PyStr("MR36"),
     serial |-> PyStr("Q2XX"), mac |-> PyStr("aa:bb"), status |-> PyStr("online"),
     lat |-> lat, lng |-> lng, address |-> address]

UnnamedDevice ==
    [t |-> "dict", text |-> "", name |-> Missing, model |-> Missing,
     serial |-> Missing, mac |-> Missing, status |-> Missing,
     lat |-> Missing, lng |-> Missing, address |-> Missing]

\* Device records: every mix of absent, falsy and truthy location and address,
\* a record with no keys at all, and an element that is None instead of a dict
DeviceRecs ==
    {Device(PyStr("AP1"), la, ln, ad) :
        la \in {Missing, PyNum("0"), PyNum("37.4")},
        ln \in {PyNone, PyNum("-122.1")},
        ad \in {Missing, PyStr(""), PyStr("1 Main St")}}
    \cup {UnnamedDevice, PyNone}

UsageDict(sent, recv) == [t |-> "dict", text |-> "", sent |-> sent, recv |-> recv]

NetClient(description, usage) ==
    [t |-> "dict", text |-> "", description |-> description, mac |-> PyStr("11:22"),
     ip |-> PyStr("10.0.0.5"), vlan |-> PyNum("10"), status |-> PyStr("Online"),
     usage |-> usage]

UnnamedClient ==
    [t |-> "dict", text |-> "", description |-> Missing, mac |-> Missing,
     ip |-> Missing, vlan |-> Missing, status |-> Missing, usage |-> Missing]

\* Client records: usage absent, None, an empty dict, a dict with either or
\* both counters, a number instead of a dict; a record with no keys; a None element
ClientRecs ==
    {NetClient(PyStr("Laptop"), u) :
        u \in {Missing, PyNone, PyNum("5")}
              \cup {UsageDict(s, r) : s \in {Missing, PyNum("100")},
                                      r \in {Missing, PyNum("200")}}}
    \cup {UnnamedClient, PyNone}

\* The few list results the registration scenarios use
FewDevices == {Device(PyStr("AP1"), PyNum("37.4"), PyNum("-122.1"), PyStr("1 Main St")), PyNone}
FewClients == {NetClient(PyStr("Laptop"), UsageDict(PyNum("100"), PyNum("200"))), PyNone}

----------------------------------------------------------------------------
(* The host serving requests: one handler at a time *)

HostIdle == last = NoCall

\* Calling the function object of a registration record with the given arguments
Run(handler, cl, given, resp) ==
    CASE handler = "get_network" ->
            get_network(cl, given.network_id, resp)
      [] handler = "update_network" ->
            update_network(cl, given.network_id, given.name, given.tags, resp)
      [] handler = "get_network_devices" ->
            get_network_devices(cl, given.network_id, resp)
      [] handler = "get_network_clients" ->
            get_network_clients(cl, given.network_id, resp)
      [] handler = "create_network" ->
            create_network(cl, given.organization_id, given.name, given.type, resp)
      [] handler = "delete_network" ->
            delete_network(cl, given.network_id, resp)

\* Variant: a handler whose client call failed drops the client reference
ServeResetting(idx, given, resp) ==
    LET rec == submitted[idx]
        r == Run(rec.handler, ClientRef(rec.reg), given, resp)
    IN  /\ last' = [idx |-> idx, tool |-> rec.name, given |-> given, resp |-> resp,
                    calls |-> r.calls, outcome |-> r.outcome]
        /\ meraki_client' = (IF resp.kind = "raise" THEN None ELSE meraki_client)
        /\ UNCHANGED <<app, submitted, regs>>

\* The host invokes the handler of record idx; the client answers resp
Serve(idx, given, resp) ==
    LET rec == submitted[idx]
        r == Run(rec.handler, ClientRef(rec.reg), given, resp)
    IN  /\ last' = [idx |-> idx, tool |-> rec.name, given |-> given, resp |-> resp,
                    calls |-> r.calls, outcome |-> r.outcome]
        /\ UNCHANGED <<app, meraki_client, submitted, regs>>

Register ==
    /\ HostIdle
    /\ \E mcp_app \in Hosts, meraki \in Clients :
        register_network_tools(mcp_app, meraki)

InvokeGetNetwork ==
    /\ HostIdle
    /\ \E idx \in DOMAIN submitted, network_id \in NetworkIds, resp \in Responses(RawValues) :
        /\ submitted[idx].handler = "get_network"
        /\ Serve(idx, [network_id |-> network_id], resp)

InvokeUpdateNetwork ==
    /\ HostIdle
    /\ \E idx \in DOMAIN submitted, network_id \in NetworkIds,
           name \in NetNames \cup {NotGiven}, tags \in TagVals \cup {NotGiven},
           resp \in Responses(RawValues) :
        /\ submitted[idx].handler = "update_network"
        /\ Serve(idx, [network_id |-> network_id, name |-> name, tags |-> tags], resp)

InvokeCreateNetwork ==
    /\ HostIdle
    /\ \E idx \in DOMAIN submitted, organization_id \in OrgIds, name \in NetNames,
           type \in NetTypes \cup {NotGiven}, resp \in Responses(RawValues) :
        /\ submitted[idx].handler = "create_network"
        /\ Serve(idx, [organization_id |-> organization_id, name |-> name, type |-> type], resp)

InvokeDeleteNetwork ==
    /\ HostIdle
    /\ \E idx \in DOMAIN submitted, network_id \in NetworkIds, resp \in Responses(RawValues) :
        /\ submitted[idx].handler = "delete_network"
        /\ Serve(idx, [network_id |-> network_id], resp)

InvokeGetNetworkDevices(values) ==
    /\ HostIdle
    /\ \E idx \in DOMAIN submitted, network_id \in NetworkIds, resp \in Responses(values) :
        /\ submitted[idx].handler = "get_network_devices"
        /\ Serve(idx, [network_id |-> network_id], resp)

InvokeGetNetworkClients(values) ==
    /\ HostIdle
    /\ \E idx \in DOMAIN submitted, network_id \in NetworkIds, resp \in Responses(values) :
        /\ submitted[idx].handler = "get_network_clients"
        /\ Serve(idx, [network_id |-> network_id], resp)

\* The same request once more (same tool, same arguments, same answer of the
\* client), served by any function object registered for that handler
InvokeAgain ==
    /\ ~HostIdle
    /\ \E idx \in DOMAIN submitted :
        /\ submitted[idx].handler = submitted[last.idx].handler
        /\ Serve(idx, last.given, last.resp)

\* The host hands the result to its caller and is idle again
HostReturns ==
    /\ ~HostIdle
    /\ last' = NoCall
    /\ UNCHANGED <<app, meraki_client, submitted, regs>>

Next ==
    \/ Register
    \/ InvokeGetNetwork
    \/ InvokeUpdateNetwork
    \/ InvokeCreateNetwork
    \/ InvokeDeleteNetwork
    \/ InvokeGetNetworkDevices(ListValues(FewDevices, 1))
    \/ InvokeGetNetworkClients(ListValues(FewClients, 1))
    \/ InvokeAgain
    \/ HostReturns

Spec == Init /\ [][Next]_vars

\* The listing handlers on every list of records up to MaxRecs, after one registration
InitFmt ==
    \E mcp_app \in Hosts, meraki \in Clients :
        /\ app = mcp_app
        /\ meraki_client = meraki
        /\ regs = <<[host |-> mcp_app, client |-> meraki]>>
        /\ submitted = register_network_tool_handlers(mcp_app, 1)
        /\ last = NoCall

NextFmt ==
    \/ InvokeGetNetworkDevices(ListValues(DeviceRecs, MaxRecs))
    \/ InvokeGetNetworkClients(ListValues(ClientRecs, MaxRecs))
    \/ HostReturns

SpecFmt == InitFmt /\ [][NextFmt]_vars

----------------------------------------------------------------------------
(* Vocabulary of the properties *)

Invoked == last.tool # "none"
LatestReg == regs[Len(regs)]
Result == last.outcome
ResultChunks == last.outcome.value.items
ReturnedText == Result.kind = "return" /\ Result.value.t = "str"

\* An empty result of a listing call: None or an empty sequence
EmptyResult(v) == v.t = "None" \/ (v.t = "list" /\ v.items = <<>>)
NonEmptyList(v) == v.t = "list" /\ v.items # <<>>

SentinelOf(tool, id) ==
    IF tool = "get_network_devices"
    THEN <<"No devices found for network ", id, ".">>
    ELSE <<"No clients found for network ", id, ".">>

HeaderOf(tool, id) ==
    IF tool = "get_network_devices"
    THEN <<"# Devices in Network (", id, ")\n\n">>
    ELSE <<"# Clients in Network (", id, ")\n\n">>

FailureOf(tool, id, e) ==
    IF tool = "get_network_devices"
    THEN <<"Failed to list devices for network ", id, ": ", e.msg>>
    ELSE <<"Failed to list clients for network ", id, ": ", e.msg>>

\* Chunks that open with a Markdown header or a (nested) bullet
IsHeaderChunk(c) == c[1] \in {"# Devices in Network (", "# Clients in Network ("}
IsBulletChunk(c) ==
    c[1] \in {"- **", "  - Serial: ", "  - MAC: ", "  - Status: ", "  - Location: (",
              "  - Address: ", "  - IP: ", "  - VLAN: ", "  - Connection: ", "  - Usage: "}

\* The part of a record on which formatting raises (it has no .get), if any
Unformattable(tool, rec) ==
    IF rec.t # "dict" THEN {rec}
    ELSE IF tool = "get_network_clients" /\ rec.usage.t \notin {"missing", "dict"}
            /\ Truthy(rec.usage)
    THEN {rec.usage}
    ELSE {}

BadIndexes(tool, items) == {i \in DOMAIN items : Unformattable(tool, items[i]) # {}}
FirstBad(tool, items) ==
    LET i == CHOOSE j \in BadIndexes(tool, items) : \A k \in BadIndexes(tool, items) : j <= k
    IN  CHOOSE part \in Unformattable(tool, items[i]) : TRUE

\* The error of a listing invocation: the client's, or the first one of formatting
Fetched == last.resp.kind = "return" /\ NonEmptyList(last.resp.value)
FormattingFails == Fetched /\ BadIndexes(last.tool, last.resp.value.items) # {}
FormattingError == AttributeError(FirstBad(last.tool, last.resp.value.items))

\* The blocks of a formatted list: block k runs from the k-th top-level bullet
\* to the chunk before the next one
Starts(chunks) == {i \in DOMAIN chunks : chunks[i][1] = "- **"}
NthStart(chunks, k) ==
    CHOOSE i \in Starts(chunks) : Cardinality({j \in Starts(chunks) : j < i}) = k - 1
BlockOf(chunks, k) ==
    SubSeq(chunks, NthStart(chunks, k),
           IF k = Cardinality(Starts(chunks)) THEN Len(chunks) ELSE NthStart(chunks, k + 1) - 1)
BlankChunk == <<"\n">>
HasChunk(block, c) == \E j \in DOMAIN block : block[j] = c
HasLine(block, first) == \E j \in DOMAIN block : block[j][1] = first

\* One block per record, in order, each closed by exactly one blank line
OneBlockPerRecord(chunks, items) ==
    /\ Cardinality(Starts(chunks)) = Len(items)
    /\ Len(items) > 0 => NthStart(chunks, 1) = 2
    /\ \A k \in DOMAIN items :
        LET b == BlockOf(chunks, k)
        IN  /\ b[Len(b)] = BlankChunk
            /\ Cardinality({j \in DOMAIN b : b[j] = BlankChunk}) = 1

Shown(v, fallback) == IF v.t = "missing" THEN fallback ELSE v.text

DeviceLines(b, d) ==
    /\ b[1] = <<"- **", Shown(d.name, "Unnamed"), "** (Model: ", Shown(d.model, "Unknown"), ")\n">>
    /\ HasLine(b, "  - Location: (") <=> (Truthy(d.lat) /\ Truthy(d.lng))
    /\ HasLine(b, "  - Location: (")
          => HasChunk(b, <<"  - Location: (", d.lat.text, ", ", d.lng.text, ")\n">>)
    /\ HasLine(b, "  - Address: ") <=> Truthy(d.address)
    /\ HasLine(b, "  - Address: ") => HasChunk(b, <<"  - Address: ", d.address.text, "\n">>)

UsageLine(u) ==
    <<"  - Usage: ", Shown(u.sent, "0"), " sent, ", Shown(u.recv, "0"), " received\n">>

\* When a usage counts as there: as a usage object ("present"), or as a truthy value
UsageThere(u, rule) == IF rule = "present" THEN u.t = "dict" ELSE Truthy(u)

ClientLines(b, c, rule) ==
    /\ b[1] = <<"- **", Shown(c.description, "Unknown Device"), "**\n">>
    /\ HasLine(b, "  - Usage: ") <=> UsageThere(c.usage, rule)
    /\ HasLine(b, "  - Usage: ") => HasChunk(b, UsageLine(c.usage))

\* A formatted list came back
Listed == /\ Invoked /\ last.tool \in ListTools /\ ReturnedText
          /\ IsHeaderChunk(ResultChunks[1])

OptionalLines(rule) ==
    Listed =>
        LET items == last.resp.value.items IN
        /\ Fetched
        /\ OneBlockPerRecord(ResultChunks, items)
        /\ \A k \in DOMAIN items :
            IF last.tool = "get_network_devices"
            THEN DeviceLines(BlockOf(ResultChunks, k), items[k])
            ELSE ClientLines(BlockOf(ResultChunks, k), items[k], rule)

SameOutcome(a, b) ==
    /\ a.kind = b.kind
    /\ a.kind = "return" => a.value = b.value
    /\ a.kind = "raise" => a.exc = b.exc

----------------------------------------------------------------------------
(* Properties *)

\* C1: once register_network_tools has been called again, every handler that
\* runs, whichever registration created it, makes its client call on the client
\* of the latest registration and on no other.
C1_LastWriteWins ==
    (Invoked /\ Len(regs) >= 2) =>
        /\ last.calls # <<>>
        /\ \A k \in DOMAIN last.calls : last.calls[k].client = LatestReg.client

\* C1 witness: a handler created by the first registration runs after a second
\* registration with another client, and calls the second client.
C1_Witness ==
    /\ Invoked /\ Len(regs) = 2 /\ regs[1].client # regs[2].client
    /\ submitted[last.idx].reg = 1
    /\ last.calls[1].client = regs[2].client

AllKept ==
    /\ Len(submitted) = Len(regs) * Cardinality(ToolNames)
    /\ \A r \in DOMAIN regs : \A n \in ToolNames :
        \E i \in DOMAIN submitted :
            /\ submitted[i].reg = r /\ submitted[i].name = n
            /\ submitted[i].host = regs[r].host

\* C2 as stated: among the records submitted to one host no tool name occurs
\* twice, and every record submitted is still there.
C2_UniquePerHost ==
    /\ \A i, j \in DOMAIN submitted :
        (submitted[i].host = submitted[j].host /\ submitted[i].name = submitted[j].name)
            => i = j
    /\ AllKept

\* C2 amended: among the records submitted by one call of
\* register_network_tools each of the six tool names occurs exactly once, on the
\* host that call named, and every record submitted is still there; a host
\* named by several calls has received every name once per call.
C2_UniquePerRegistration ==
    /\ \A i, j \in DOMAIN submitted :
        (submitted[i].reg = submitted[j].reg /\ submitted[i].name = submitted[j].name)
            => i = j
    /\ \A i \in DOMAIN submitted : submitted[i].name \in ToolNames
    /\ AllKept

\* C2 witness: two registrations on the same host, twelve records.
C2_Witness ==
    /\ Len(regs) = 2 /\ regs[1].host = regs[2].host
    /\ Cardinality({i \in DOMAIN submitted : submitted[i].name = "delete_network"
                                             /\ submitted[i].host = regs[1].host}) = 2

\* C3 as stated: app and meraki_client start as None and, once set, keep the
\* value the first registration gave them.
C3_WriteOnce ==
    IF regs = <<>> THEN app = None /\ meraki_client = None
    ELSE app = regs[1].host /\ meraki_client = regs[1].client

\* C3 amended: app and meraki_client start as None and afterwards hold the
\* arguments of the most recent register_network_tools call; handler
\* invocations leave them alone.
C3_LatestRegistration ==
    IF regs = <<>> THEN app = None /\ meraki_client = None
    ELSE app = LatestReg.host /\ meraki_client = LatestReg.client

\* C3 witness: after a second registration with another host and client, and a
\* handler invocation, the globals hold the second pair.
C3_Witness ==
    /\ Len(regs) = 2 /\ regs[1].host # regs[2].host /\ regs[1].client # regs[2].client
    /\ Invoked
    /\ app = regs[2].host /\ meraki_client = regs[2].client

\* C4 as stated: a listing handler always returns; when the client call or the
\* formatting raised e, it returns the one-chunk failure string ending in e's text.
C4_NeverPropagates ==
    (Invoked /\ last.tool \in ListTools) =>
        /\ Result.kind = "return"
        /\ last.resp.kind = "raise" =>
              ResultChunks = <<FailureOf(last.tool, last.given.network_id, last.resp.exc)>>
        /\ FormattingFails =>
              ResultChunks = <<FailureOf(last.tool, last.given.network_id, FormattingError)>>

\* C4 amended: when the client call or the formatting raised an error e that is
\* an instance of Exception, a listing handler returns the one-chunk failure
\* string ending in e's text and no partial list; the only exceptions it lets
\* through to the host are those of the client that are not instances of
\* Exception (KeyboardInterrupt, SystemExit, ...), unchanged.
C4_CatchesExceptions ==
    (Invoked /\ last.tool \in ListTools) =>
        /\ (last.resp.kind = "raise" /\ IsException(last.resp.exc)) =>
              /\ ReturnedText
              /\ ResultChunks = <<FailureOf(last.tool, last.given.network_id, last.resp.exc)>>
        /\ FormattingFails =>
              /\ ReturnedText
              /\ ResultChunks = <<FailureOf(last.tool, last.given.network_id, FormattingError)>>
        /\ Result.kind = "raise" =>
              /\ last.resp.kind = "raise" /\ ~IsException(last.resp.exc)
              /\ Result.exc = last.resp.exc

\* C4 witness: the second record of two cannot be formatted; the failure string
\* alone comes back.
C4_Witness ==
    /\ Invoked /\ last.tool = "get_network_devices" /\ Fetched
    /\ Len(last.resp.value.items) = 2
    /\ BadIndexes(last.tool, last.resp.value.items) = {2}
    /\ ReturnedText
    /\ ResultChunks = <<FailureOf(last.tool, last.given.network_id, FormattingError)>>

\* C5: when the client call of get_network, update_network, create_network or
\* delete_network raises, the handler ends in that same exception.
C5_RawFailurePropagates ==
    (Invoked /\ last.tool \in RawTools /\ last.resp.kind = "raise") =>
        /\ Result.kind = "raise"
        /\ Result.exc = last.resp.exc

\* C5 witness: delete_network ends in the APIError its client call raised.
C5_Witness ==
    /\ Invoked /\ last.tool = "delete_network"
    /\ last.resp.kind = "raise" /\ last.resp.exc.typ = "APIError"
    /\ Result.kind = "raise"

\* C6: every handler invocation makes exactly one client call, to the method
\* named like the tool.
C6_ExactlyOneCall ==
    Invoked =>
        /\ Len(last.calls) = 1
        /\ last.calls[1].method = last.tool

\* C6 witness: a listing whose client call fails has made one call.
C6_Witness ==
    /\ Invoked /\ last.tool = "get_network_clients"
    /\ last.resp.kind = "raise" /\ IsException(last.resp.exc)
    /\ Len(last.calls) = 1

\* C7: the four raw handlers call the client with the caller's arguments in
\* order (None for an omitted name or tags, "wireless" for an omitted type) and
\* return the client's result as it is.
C7_FaithfulForwarding ==
    (Invoked /\ last.tool \in RawTools) =>
        LET g == last.given
            args == last.calls[1].args
        IN  /\ last.tool \in {"get_network", "delete_network"} => args = <<g.network_id>>
            /\ last.tool = "update_network" =>
                  args = <<g.network_id,
                           IF g.name = NotGiven THEN None ELSE g.name,
                           IF g.tags = NotGiven THEN None ELSE g.tags>>
            /\ last.tool = "create_network" =>
                  args = <<g.organization_id, g.name,
                           IF g.type = NotGiven THEN "wireless" ELSE g.type>>
            /\ last.resp.kind = "return" =>
                  (Result.kind = "return" /\ Result.value = last.resp.value)

\* C7 witness: update_network called with tags but no name.
C7_Witness ==
    /\ Invoked /\ last.tool = "update_network"
    /\ last.given.name = NotGiven /\ last.given.tags # NotGiven
    /\ last.resp.kind = "return" /\ last.resp.value.t = "dict"
    /\ Result.kind = "return"

SentinelReturned ==
    ReturnedText /\ ResultChunks = <<SentinelOf(last.tool, last.given.network_id)>>

EmptyGivesSentinel ==
    /\ (last.resp.kind = "return" /\ EmptyResult(last.resp.value)) => SentinelReturned
    /\ SentinelReturned =>
          /\ last.resp.kind = "return" /\ EmptyResult(last.resp.value)
          /\ ~IsHeaderChunk(ResultChunks[1]) /\ ~IsBulletChunk(ResultChunks[1])

\* C8 as stated: an empty result gives exactly the sentinel, which has no
\* Markdown header or bullet and comes back for an empty result only; a
\* non-empty sequence always gives the header-prefixed list.
C8_SentinelOrList ==
    (Invoked /\ last.tool \in ListTools) =>
        /\ EmptyGivesSentinel
        /\ Fetched =>
              /\ ReturnedText
              /\ ResultChunks[1] = HeaderOf(last.tool, last.given.network_id)

\* C8 amended: an empty result gives exactly the sentinel, which has no Markdown
\* header or bullet and comes back for an empty result only; a non-empty
\* sequence gives the header-prefixed list when every record can be formatted,
\* and the failure string (never the sentinel) when formatting a record raises.
C8_SentinelOnlyWhenEmpty ==
    (Invoked /\ last.tool \in ListTools) =>
        /\ EmptyGivesSentinel
        /\ (Fetched /\ ~FormattingFails) =>
              /\ ReturnedText
              /\ ResultChunks[1] = HeaderOf(last.tool, last.given.network_id)
              /\ Len(ResultChunks) > 1
        /\ FormattingFails =>
              /\ ReturnedText
              /\ ResultChunks = <<FailureOf(last.tool, last.given.network_id, FormattingError)>>

\* C8 witness: an empty list gives the devices sentinel.
C8_Witness ==
    /\ Invoked /\ last.tool = "get_network_devices"
    /\ last.resp.kind = "return" /\ last.resp.value.t = "list" /\ last.resp.value.items = <<>>
    /\ ResultChunks = << <<"No devices found for network ", last.given.network_id, ".">> >>

\* C9 as stated: in a formatted list there is one block per record, in order,
\* each closed by one blank line; Location iff lat and lng are truthy, Address
\* iff address is truthy, Usage iff a usage object is present (0 for a missing
\* counter).
C9_OptionalLinesWhenPresent == OptionalLines("present")

\* C9 amended: as stated, except that the Usage line is emitted if and only if
\* usage is truthy: a usage object that is present but empty gives no Usage line.
C9_OptionalLinesWhenTruthy == OptionalLines("truthy")

\* C9 witness: two clients listed, the first with only a recv counter (sent
\* shown as 0), the second with an empty usage object and no Usage line.
C9_Witness ==
    /\ Listed /\ last.tool = "get_network_clients"
    /\ Len(last.resp.value.items) = 2
    /\ last.resp.value.items[1].usage = UsageDict(Missing, PyNum("200"))
    /\ last.resp.value.items[2].usage = UsageDict(Missing, Missing)
    /\ HasChunk(BlockOf(ResultChunks, 1), <<"  - Usage: ", "0", " sent, ", "200", " received\n">>)
    /\ ~HasLine(BlockOf(ResultChunks, 2), "  - Usage: ")

\* C10: a step in which a handler runs leaves app, meraki_client and the
\* submitted records as they were, and the same request served again (same
\* tool, arguments and client answer) ends the same way.
C10_HandlersKeepNothing ==
    [][ /\ last'.tool # "none" =>
              (app' = app /\ meraki_client' = meraki_client /\ submitted' = submitted)
        /\ (last.tool # "none" /\ last'.tool = last.tool
              /\ last'.given = last.given /\ last'.resp = last.resp) =>
              SameOutcome(last'.outcome, last.outcome) ]_vars

\* C10 witness: a failing get_network has been served by a handler of the first
\* registration after a second one; the globals still hold the second pair.
C10_Witness ==
    /\ Invoked /\ last.tool = "get_network" /\ last.resp.kind = "raise"
    /\ Len(regs) = 2 /\ submitted[last.idx].reg = 1
    /\ app = regs[2].host /\ meraki_client = regs[2].client

====
